---- MODULE Spec2Model ----
(***************************************************************************)
(* Lifecycle of py_micro.service.main.GrpcServer: start(), stop(),         *)
(* handle_signal(), and the main()/run() entry points that drive it.       *)
(*                                                                         *)
(* The asyncio event loop is single threaded and cooperative: the code     *)
(* between two awaits of a coroutine is one atomic action.  The gRPC       *)
(* transport (grpc.aio.Server) is the external collaborator the wrapper    *)
(* calls; it is modelled by the calls the wrapper makes on it and by the   *)
(* completion of the awaits the wrapper suspends on.  The HealthCheck      *)
(* handlers of the two TemplateService classes run on the transport's      *)
(* thread pool against the health check repository.                        *)
(***************************************************************************)
EXTENDS Integers, Sequences, FiniteSets, TLC

\* ------------------------------------------------------------------ bounds
MaxCalls    == 3   \* start() and stop() invocations made directly on one GrpcServer
MaxSignals  == 2   \* signals delivered to the process under main()
MaxGrace    == 1   \* grace_period values 0..MaxGrace, in clock ticks
MaxInflight == 1   \* calls in flight on a transport
MaxHealthCalls == 4   \* HealthCheck calls made by clients
MaxThreads  == 2   \* handler threads observed at a time
MaxN        == 4   \* arguments n and less_than of validate_less_than: -1..MaxN

VARIABLES
    config,          \* self._config (ServerConfig)
    env,             \* what the environment lets grpc do: see Envs
    server,          \* self._server: 0 is None, t > 0 the t-th transport created
    shutdown_event,  \* self._shutdown_event.is_set()
    transport,       \* the grpc.aio servers created so far
    startTasks,      \* the start() coroutines
    stopTasks,       \* the stop() coroutines
    mainpc,          \* position of main(), "off" when the object is driven directly
    exit_code,       \* process exit code of run(), -1 while running
    handlers,        \* the signals with a handler installed on the loop
    servicer,        \* the TemplateService registered: "simple" or "repository"
    records,         \* number of records in the health check repository
    handled,         \* number of HealthCheck calls that have ended
    faulted,         \* whether a step of some HealthCheck call has raised
    calls,           \* per handler thread, the call it runs or ran last
    validation       \* a call of validate_less_than: arguments, context, outcome

\* The variables of the servicer and of the server's lifecycle.
hvars == <<servicer, records, handled, faulted, calls, validation>>
lvars == <<config, env, server, shutdown_event, transport, startTasks, stopTasks,
           mainpc, exit_code, handlers>>
vars == <<lvars, hvars>>

\* Slots of the start() and the stop() coroutines; under main() there is
\* one start(), one stop() per signal and main's own cleanup stop().
Slots  == IF MaxCalls > MaxSignals THEN MaxCalls ELSE MaxSignals + 1
Starts == 1..Slots
Stops  == 1..Slots
Signals == {"SIGINT", "SIGTERM"}

\* "ok": the transport is created, binds and starts; "no_server": grpc.aio.server
\* yields None; "bind_fails": add_insecure_port raises; "start_fails": the
\* transport's start() raises; "interrupted": KeyboardInterrupt is raised in
\* start() as it resumes from the transport's start().
Envs == {"ok", "no_server", "bind_fails", "start_fails", "interrupted"}

\* ServerConfig: the defaults of host, port and max_workers.
DefaultHost       == "0.0.0.0"
DefaultPort       == 50051
DefaultMaxWorkers == 10

\* port is an int field without a constraint, max_workers an int field
\* with gt=0: the values the settings are given in the environment.
Hosts   == {DefaultHost, "127.0.0.1"}
Ports   == {-1, 0, DefaultPort, 65536}
Workers == {-1, 0, DefaultMaxWorkers}

\* Faulty variant: max_workers validated with ge=0.
ConfigAccepted_Ge(cfg) == cfg.max_workers >= 0

\* ServerConfig(**config) validates: max_workers has gt=0, nothing else is
\* constrained.
ConfigAccepted(cfg) == cfg.max_workers > 0

\* What the environment provides for the server settings.
Settings == [grace_period : 0..MaxGrace, host : Hosts, port : Ports,
             max_workers : Workers]

\* The configurations of a constructed GrpcServer, with the default port
\* and pool size.
Configs == [grace_period : 0..MaxGrace, host : {DefaultHost},
            port : {DefaultPort}, max_workers : {DefaultMaxWorkers}]

NoTransport ==
    [status |-> "absent", servicer |-> FALSE, reflection |-> FALSE,
     bound |-> FALSE, binds |-> <<>>, stops |-> <<>>, inflight |-> 0,
     timer |-> -1, abandoned |-> 0, ops |-> <<>>]

\* A HealthCheck call ends with a reply or with an RPC error; a message
\* is the sequence of the parts it is formatted from.
NoResponse == [kind |-> "none", status |-> "none", message |-> <<>>]
Threads == 1..MaxThreads
NoCall == [pc |-> "idle", nr |-> 0, fault |-> "none", seen |-> 0, made |-> 0,
           response |-> NoResponse]

\* No call of validate_less_than is being looked at.
NoValidation == [pc |-> "none", n |-> 0, less_than |-> 0, code |-> "none",
                 message |-> "none", aborts |-> <<>>]

IdleStart == [pc |-> "idle", tr |-> 0]
IdleStop  == [pc |-> "idle", origin |-> "none", tr |-> 0, ran |-> FALSE]

\* ----------------------------------------------------------- construction
InitObject ==
    /\ env \in Envs
    /\ handlers = {}
    /\ records = 0
    /\ handled = 0
    /\ faulted = FALSE
    /\ calls = [w \in Threads |-> NoCall]
    /\ server = 0
    /\ shutdown_event = FALSE
    /\ transport = [t \in Starts |-> NoTransport]
    /\ startTasks = [i \in Starts |-> IdleStart]
    /\ stopTasks = [j \in Stops |-> IdleStop]
    /\ exit_code = -1

\* main.py registers py_micro.service.services.TemplateService.
Init ==
    /\ config \in Configs
    /\ servicer = "simple"
    /\ InitObject
    /\ validation = NoValidation
    /\ mainpc = "off"

\* --------------------------------------------------------------- helpers
NextTransport == Cardinality({t \in Starts : transport[t].status # "absent"}) + 1
NextStart == Cardinality({i \in Starts : startTasks[i].pc # "idle"}) + 1
NextStop  == Cardinality({j \in Stops : stopTasks[j].pc # "idle"}) + 1
CallsMade == (NextStart - 1) + (NextStop - 1)

\* The lifecycle state, which the class does not store: read off
\* self._server and the transport it refers to.  A transport that never
\* bound leaves the object Created until a stop() is applied to it; one
\* whose start failed serves nothing and is taken as Stopped.
LifecycleOf(t) ==
    IF t = 0 THEN "Created"
    ELSE CASE transport[t].status = "ready" ->
                  IF transport[t].stops = <<>> THEN "Created" ELSE "Stopped"
           [] transport[t].status = "starting" -> "Starting"
           [] transport[t].status = "running"  -> "Serving"
           [] transport[t].status = "failed"   -> "Stopped"
           [] transport[t].status = "stopping" -> "Stopping"
           [] transport[t].status = "stopped"  -> "Stopped"
           [] OTHER -> "Created"

LifecycleState == LifecycleOf(server)

\* ------------------------------------------------- the transport (grpc.aio)
\* server.stop(grace) is requested on transport record r: the request is
\* logged; a starting or running transport stops accepting work and starts
\* its drain with the deadline of the first request (grace < 0 is None: no
\* deadline); on a transport that never started or already stopped it does
\* nothing.
TransportStop(r, grace) ==
    IF r.status \in {"starting", "running"}
    THEN [r EXCEPT !.stops = Append(@, grace), !.status = "stopping",
                   !.timer = IF grace < 0 THEN -1 ELSE grace]
    ELSE [r EXCEPT !.stops = Append(@, grace)]

\* await server.stop(grace) does not suspend on such a transport.
TransportStopReturnsAtOnce(r) == r.status \in {"ready", "failed", "stopped"}

\* The transport's start() completes (or raises).
TransportStartCompletes(t) ==
    /\ transport[t].status = "starting"
    /\ transport' = [transport EXCEPT ![t].status =
                        IF env = "start_fails" THEN "failed" ELSE "running"]
    /\ UNCHANGED <<hvars, handlers, config, env, server, shutdown_event, startTasks, stopTasks,
                   mainpc, exit_code>>

\* A client call is accepted by a running transport.
CallArrives(t) ==
    /\ transport[t].status = "running"
    /\ transport[t].inflight < MaxInflight
    /\ transport' = [transport EXCEPT ![t].inflight = @ + 1]
    /\ UNCHANGED <<hvars, handlers, config, env, server, shutdown_event, startTasks, stopTasks,
                   mainpc, exit_code>>

\* An in-flight call completes.
CallCompletes(t) ==
    /\ transport[t].status \in {"running", "stopping"}
    /\ transport[t].inflight > 0
    /\ transport' = [transport EXCEPT ![t].inflight = @ - 1]
    /\ UNCHANGED <<hvars, handlers, config, env, server, shutdown_event, startTasks, stopTasks,
                   mainpc, exit_code>>

\* One tick of the grace period passes during the drain.
Tick(t) ==
    /\ transport[t].status = "stopping"
    /\ transport[t].timer > 0
    /\ transport' = [transport EXCEPT ![t].timer = @ - 1]
    /\ UNCHANGED <<hvars, handlers, config, env, server, shutdown_event, startTasks, stopTasks,
                   mainpc, exit_code>>

\* The drain ends: every call completed, or the deadline elapsed and the
\* calls still in flight are abandoned.
DrainCompletes(t) ==
    /\ transport[t].status = "stopping"
    /\ transport[t].inflight = 0 \/ transport[t].timer = 0
    /\ transport' = [transport EXCEPT ![t].status = "stopped",
                                      ![t].abandoned = transport[t].inflight,
                                      ![t].inflight = 0,
                                      ![t].timer = -1]
    /\ UNCHANGED <<hvars, handlers, config, env, server, shutdown_event, startTasks, stopTasks,
                   mainpc, exit_code>>

\* ------------------------------------------------------ GrpcServer.start
\* Faulty variant: the wait returns without the event.
WaitReturns_Always(ev) == TRUE

\* await self._shutdown_event.wait() returns when the event is set.
WaitReturns(ev) == ev

\* Faulty variant: the check for a missing server always passes.
ServerCreated_Always(e) == TRUE

\* self._server = grpc.aio.server(...) is not None
ServerCreated(e) == e # "no_server"

\* Faulty variant: a failed bind goes unnoticed.
BindRaises_Never(e) == FALSE

\* self._server.add_insecure_port(listen_addr) raises when the address
\* cannot be bound.
BindRaises(e) == e = "bind_fails"

\* the port of listen_addr = f"{host}:{port}"
ListenPort(cfg) == cfg.port

\* Faulty variant: the address is always the default one.
ListenAddr_Default(cfg) == <<DefaultHost, ":", DefaultPort>>

\* listen_addr = f"{self._config.host}:{self._config.port}"
ListenAddr(cfg) == <<cfg.host, ":", cfg.port>>

\* Faulty variant: the address is bound before the servicer and reflection
\* are registered.
SetupCalls_BindFirst(cfg) ==
    << [op |-> "add_insecure_port", arg |-> ListenAddr(cfg)],
       [op |-> "add_servicer", arg |-> <<>>],
       [op |-> "enable_reflection", arg |-> <<>>] >>

\* The calls start() makes on the transport it created, in the order of
\* the code, up to the bind.
SetupCalls(cfg) ==
    << [op |-> "add_servicer", arg |-> <<>>],
       [op |-> "enable_reflection", arg |-> <<>>],
       [op |-> "add_insecure_port", arg |-> ListenAddr(cfg)] >>

\* await self._server.start()
StartCall == [op |-> "start", arg |-> <<>>]

\* start() from its first line to its first suspension: the transport is
\* created and assigned to self._server whatever the state of the object,
\* the servicer and reflection are registered, the address is bound and the
\* transport's start() is awaited.
StartFirstSegment(i) ==
    IF ~ServerCreated(env)
    THEN /\ server' = 0
         /\ startTasks' = [startTasks EXCEPT ![i] = [pc |-> "returned", tr |-> 0]]
         /\ UNCHANGED transport
    ELSE LET t == NextTransport
             made == [NoTransport EXCEPT !.status = "ready", !.servicer = TRUE,
                                         !.reflection = TRUE,
                                         !.binds = <<ListenPort(config)>>,
                                         !.ops = SetupCalls(config)]
         IN /\ server' = t
            /\ IF BindRaises(env)
               THEN /\ transport' = [transport EXCEPT ![t] = made]
                    /\ startTasks' = [startTasks EXCEPT
                                         ![i] = [pc |-> "raised", tr |-> t]]
               ELSE /\ transport' = [transport EXCEPT ![t] =
                                        [made EXCEPT !.bound = TRUE,
                                                     !.status = "starting",
                                                     !.ops = Append(@, StartCall)]]
                    /\ startTasks' = [startTasks EXCEPT
                                         ![i] = [pc |-> "await_transport_start",
                                                 tr |-> t]]

\* start() resumes from await self._server.start(): it raises if the
\* transport's start raised or the interrupt arrives, else logs and waits
\* for the shutdown event.
StartResume(i) ==
    /\ startTasks[i].pc = "await_transport_start"
    /\ transport[startTasks[i].tr].status # "starting"
    /\ startTasks' = [startTasks EXCEPT ![i].pc =
                        IF transport[startTasks[i].tr].status = "failed"
                        THEN "raised"
                        ELSE IF env = "interrupted" THEN "interrupted"
                        ELSE IF WaitReturns(shutdown_event) THEN "returned"
                             ELSE "wait_shutdown"]
    /\ UNCHANGED <<hvars, handlers, config, env, server, shutdown_event, transport, stopTasks,
                   mainpc, exit_code>>

\* start() wakes from the shutdown event and returns.
StartWake(i) ==
    /\ startTasks[i].pc = "wait_shutdown"
    /\ WaitReturns(shutdown_event)
    /\ startTasks' = [startTasks EXCEPT ![i].pc = "returned"]
    /\ UNCHANGED <<hvars, handlers, config, env, server, shutdown_event, transport, stopTasks,
                   mainpc, exit_code>>

\* ------------------------------------------------------- GrpcServer.stop
\* if not self._server: return
StopHasNoServer(srv) == srv = 0

\* Faulty variant: stop() flips the event instead of setting it.
EventAfterSet_Toggled(ev) == ~ev

\* Faulty variant: stop() forgets to set the event.
EventAfterSet_Forgotten(ev) == ev

\* self._shutdown_event.set()
EventAfterSet(ev) == TRUE

\* Faulty variant: stop() passes no grace period (None: wait for the drain).
StopGrace_None(cfg) == -1

\* Faulty variant: stop() passes a constant instead of the configured value.
StopGrace_Zero(cfg) == 0

\* the argument of self._server.stop(...)
StopGrace(cfg) == cfg.grace_period

\* stop() from its first line to its first suspension: behind the guard
\* the event is set and the transport's stop is requested and awaited.
StopEffects ==
    IF StopHasNoServer(server)
    THEN UNCHANGED <<shutdown_event, transport>>
    ELSE /\ shutdown_event' = EventAfterSet(shutdown_event)
         /\ transport' = [transport EXCEPT ![server] =
                             TransportStop(transport[server], StopGrace(config))]

\* Where that segment leaves the stop() coroutine created by `origin`.
StopTaskAfter(origin) ==
    IF StopHasNoServer(server)
    THEN [pc |-> "returned", origin |-> origin, tr |-> 0, ran |-> FALSE]
    ELSE [pc |-> IF TransportStopReturnsAtOnce(transport[server])
                 THEN "returned" ELSE "await_transport_stop",
          origin |-> origin, tr |-> server, ran |-> TRUE]

\* A stop() task scheduled on the loop runs its first segment.
StopBegin(j) ==
    /\ stopTasks[j].pc = "begin"
    /\ StopEffects
    /\ stopTasks' = [stopTasks EXCEPT ![j] = StopTaskAfter(stopTasks[j].origin)]
    /\ UNCHANGED <<hvars, handlers, config, env, server, startTasks, mainpc, exit_code>>

\* stop() resumes from await self._server.stop(...) once the transport has
\* stopped, logs and returns.
StopResume(j) ==
    /\ stopTasks[j].pc = "await_transport_stop"
    /\ transport[stopTasks[j].tr].status = "stopped"
    /\ stopTasks' = [stopTasks EXCEPT ![j].pc = "returned"]
    /\ UNCHANGED <<hvars, handlers, config, env, server, shutdown_event, transport, startTasks,
                   mainpc, exit_code>>

\* ---------------------------------------------- GrpcServer.handle_signal
\* Faulty variant: the handler runs stop() itself instead of scheduling it.
HandleSignal_Inline(sig) ==
    /\ \/ /\ mainpc = "await_start"
          /\ startTasks[1].pc \in {"await_transport_start", "wait_shutdown"}
       \/ /\ mainpc \in {"finally", "finally_exit"}
          /\ \E j \in Stops : /\ stopTasks[j].origin = "main"
                              /\ stopTasks[j].pc = "await_transport_stop"
    /\ sig \in handlers
    /\ Cardinality({j \in Stops : stopTasks[j].origin \in Signals}) < MaxSignals
    /\ StopEffects
    /\ stopTasks' = [stopTasks EXCEPT ![NextStop] = StopTaskAfter(sig)]
    /\ UNCHANGED <<hvars, handlers, config, env, server, startTasks, mainpc, exit_code>>

\* asyncio.create_task(self.stop()): one stop() coroutine is scheduled.
\* The handlers main() installed run as loop callbacks, so only while
\* main() is suspended in start() or in its cleanup stop().
HandleSignal(sig) ==
    /\ \/ /\ mainpc = "await_start"
          /\ startTasks[1].pc \in {"await_transport_start", "wait_shutdown"}
       \/ /\ mainpc \in {"finally", "finally_exit"}
          /\ \E j \in Stops : /\ stopTasks[j].origin = "main"
                              /\ stopTasks[j].pc = "await_transport_stop"
    /\ sig \in handlers
    /\ Cardinality({j \in Stops : stopTasks[j].origin \in Signals}) < MaxSignals
    /\ stopTasks' = [stopTasks EXCEPT ![NextStop] =
                        [IdleStop EXCEPT !.pc = "begin", !.origin = sig]]
    /\ UNCHANGED <<hvars, handlers, config, env, server, shutdown_event, transport, startTasks,
                   mainpc, exit_code>>

\* ------------------------------------------------- direct use of the object
\* A caller invokes start(): it runs to its first suspension.  (A start()
\* wrapped in a task runs that segment later, with nothing of it visible
\* in between: the order of the first segments is the order of the calls.)
CallStart ==
    /\ mainpc = "off"
    /\ CallsMade < MaxCalls
    /\ StartFirstSegment(NextStart)
    /\ UNCHANGED <<hvars, handlers, config, env, shutdown_event, stopTasks, mainpc, exit_code>>

\* A caller invokes stop(): it runs to its first suspension.
CallStop ==
    /\ mainpc = "off"
    /\ CallsMade < MaxCalls
    /\ StopEffects
    /\ stopTasks' = [stopTasks EXCEPT ![NextStop] = StopTaskAfter("call")]
    /\ UNCHANGED <<hvars, handlers, config, env, server, startTasks, mainpc, exit_code>>

\* ------------------------------------------------------------ main / run
InitMain ==
    /\ config \in Configs
    /\ servicer = "simple"
    /\ InitObject
    /\ validation = NoValidation
    /\ mainpc = "init"

\* The process starts with whatever settings the environment provides; no
\* address with a port that is not a 16-bit number can be bound (port 0
\* binds a port the system picks).
InitBoot ==
    /\ config \in Settings
    /\ servicer = "simple"
    /\ InitObject
    /\ validation = NoValidation
    /\ config.port \notin 0..65535 => env \in {"bind_fails", "no_server"}
    /\ mainpc = "init"

\* Faulty variant: the process always ends with code 0.
ExitCode_Zero(pc) == 0

\* run(): an exception that leaves main() and the sys.exit(1) raised in
\* main() end the process with code 1; a normal return of main() and a
\* KeyboardInterrupt that leaves asyncio.run end it with code 0.
ExitCode(pc) == IF pc \in {"finally_exit", "setup_raised"} THEN 1 ELSE 0

\* Faulty variant: only the SIGINT handler is installed.
InstallHandlers_SigintOnly(hs) == hs \cup {"SIGINT"}

\* loop.add_signal_handler for signal.SIGINT and for signal.SIGTERM
InstallHandlers(hs) == hs \cup {"SIGINT", "SIGTERM"}

\* main() builds the container, the logging and the GrpcServer, whose
\* constructor validates the settings, and installs the SIGINT and SIGTERM
\* handlers.  A ValidationError is raised before the try block: it leaves
\* main() without any cleanup and run() exits.
MainSetup ==
    /\ mainpc = "init"
    /\ IF ConfigAccepted(config)
       THEN /\ mainpc' = "call_start"
            /\ handlers' = InstallHandlers(handlers)
            /\ UNCHANGED exit_code
       ELSE /\ mainpc' = "done"
            /\ exit_code' = ExitCode("setup_raised")
            /\ UNCHANGED handlers
    /\ UNCHANGED <<hvars, config, env, server, shutdown_event, transport, startTasks,
                   stopTasks>>

\* SIGINT arrives before main() has installed its handlers: the
\* KeyboardInterrupt leaves main() and asyncio.run, and run() exits.
MainInterruptedInSetup ==
    /\ mainpc = "init"
    /\ mainpc' = "done"
    /\ exit_code' = ExitCode("setup_interrupted")
    /\ UNCHANGED <<hvars, handlers, config, env, server, shutdown_event, transport, startTasks,
                   stopTasks>>

\* await grpc_server.start(): start() runs to its first suspension.
MainAwaitStart ==
    /\ mainpc = "call_start"
    /\ mainpc' = "await_start"
    /\ StartFirstSegment(1)
    /\ UNCHANGED <<hvars, handlers, config, env, shutdown_event, stopTasks, exit_code>>

\* asyncio.run cancels the tasks still pending when main() ends.
CancelPending(tasks) ==
    [j \in Stops |->
        IF tasks[j].pc \in {"begin", "await_transport_stop"}
        THEN [tasks[j] EXCEPT !.pc = "cancelled"]
        ELSE tasks[j]]

\* Faulty variant: grpc_server.stop() is awaited only after a normal return
\* of start(); after an exception main() ends without cleanup.
MainCleanup_OnlyOnReturn ==
    /\ mainpc = "await_start"
    /\ startTasks[1].pc \in {"returned", "raised", "interrupted"}
    /\ IF startTasks[1].pc = "returned"
       THEN /\ StopEffects
            /\ LET after == [stopTasks EXCEPT ![NextStop] = StopTaskAfter("main")]
               IN IF after[NextStop].pc = "returned"
                  THEN /\ mainpc' = "done"
                       /\ exit_code' = ExitCode("finally")
                       /\ stopTasks' = CancelPending(after)
                  ELSE /\ mainpc' = "finally"
                       /\ stopTasks' = after
                       /\ UNCHANGED exit_code
       ELSE /\ mainpc' = "done"
            /\ exit_code' = ExitCode(IF startTasks[1].pc = "raised"
                                     THEN "finally_exit" ELSE "finally")
            /\ stopTasks' = CancelPending(stopTasks)
            /\ UNCHANGED <<shutdown_event, transport>>
    /\ UNCHANGED <<hvars, handlers, config, env, server, startTasks>>

\* start() has ended: a KeyboardInterrupt is logged, another exception is
\* logged and sys.exit(1) raised; the finally clause awaits grpc_server.stop(), which runs to its first
\* suspension; if it does not suspend, main() ends at once.
MainCleanup ==
    /\ mainpc = "await_start"
    /\ startTasks[1].pc \in {"returned", "raised", "interrupted"}
    /\ StopEffects
    /\ LET pc == IF startTasks[1].pc = "raised" THEN "finally_exit" ELSE "finally"
           after == [stopTasks EXCEPT ![NextStop] = StopTaskAfter("main")]
       IN IF after[NextStop].pc = "returned"
          THEN /\ mainpc' = "done"
               /\ exit_code' = ExitCode(pc)
               /\ stopTasks' = CancelPending(after)
          ELSE /\ mainpc' = pc
               /\ stopTasks' = after
               /\ UNCHANGED exit_code
    /\ UNCHANGED <<hvars, handlers, config, env, server, startTasks>>

\* The stop() main awaits has returned: main() ends and run() ends the
\* process.
MainDone ==
    /\ mainpc \in {"finally", "finally_exit"}
    /\ \E j \in Stops : stopTasks[j].origin = "main" /\ stopTasks[j].pc = "returned"
    /\ mainpc' = "done"
    /\ exit_code' = ExitCode(mainpc)
    /\ stopTasks' = CancelPending(stopTasks)
    /\ UNCHANGED <<hvars, handlers, config, env, server, shutdown_event, transport, startTasks>>

\* ------------------------------------------------ TemplateService.HealthCheck
\* What raises during a call: nothing, self._logger.debug, the repository's
\* count or the repository's create.
Faults == {"none", "debug", "count", "create"}

\* What can raise in the first step of the handler: in the servicer without
\* a repository the logger, in the one with a repository the count.
FirstFaults(sv) == IF sv = "simple" THEN {"none", "debug"} ELSE {"none", "count"}

\* less_than=3 in the call of validate_less_than
HealthCheckLimit == 3

\* HealthCheckResponse(status=SERVING, message="Service is healthy")
Healthy == [kind |-> "reply", status |-> "SERVING",
            message |-> <<"Service is healthy">>]

\* HealthCheckResponse(status=NOT_SERVING,
\*                     message=f"Service is unhealthy: {str(e)}")
Unhealthy(e) == [kind |-> "reply", status |-> "NOT_SERVING",
                 message |-> <<"Service is unhealthy", ": ", e>>]

\* context.abort(code=RESOURCE_EXHAUSTED, details=message) ends the call
\* with that status; it raises, so nothing of the handler runs after it.
Aborted == [kind |-> "error", status |-> "RESOURCE_EXHAUSTED",
            message |-> <<"You've exceeded the maximum number of health checks.">>]

\* An exception that leaves the handler: the transport ends the call with
\* status UNKNOWN and keeps serving.
Escaped(e) == [kind |-> "error", status |-> "UNKNOWN", message |-> <<e>>]

\* `part in message`
Contains(message, part) == \E k \in DOMAIN message : message[k] = part

\* Faulty variant: the handler reports unhealthy whatever happens.
SimpleHealthCheck_Unhealthy(fault) == Unhealthy(fault)

\* services/template_service.py: the whole body is in the try block.
SimpleHealthCheck(fault) ==
    IF fault = "debug" THEN Unhealthy(fault) ELSE Healthy

\* Faulty variant: the validator aborts only above the threshold.
ValidateAborts_Above(n, less_than) == n > less_than

\* validate_less_than: if n >= less_than: context.abort(...)
ValidateAborts(n, less_than) == n >= less_than

\* validate_less_than(n, less_than, code, message, context) applied to the
\* call v: context.abort(code=code, details=message) is called, and raises,
\* when n >= less_than; otherwise the function returns and the context is
\* not used.
ValidateLessThan(v) ==
    IF ValidateAborts(v.n, v.less_than)
    THEN [v EXCEPT !.pc = "aborted",
                   !.aborts = Append(@, [code |-> v.code, details |-> v.message])]
    ELSE [v EXCEPT !.pc = "returned"]

\* The validator runs on its arguments.
ValidateCall ==
    /\ validation.pc = "called"
    /\ validation' = ValidateLessThan(validation)
    /\ UNCHANGED <<lvars, servicer, records, handled, faulted, calls>>

\* template_service.py, after the count: the validation, then the try
\* block that creates one record and replies.
RepositoryHealthCheck(seen, fault) ==
    IF ValidateAborts(seen, HealthCheckLimit) THEN Aborted
    ELSE IF fault \in {"debug", "create"} THEN Unhealthy(fault)
    ELSE Healthy

\* The records the call adds: create() ran and did not raise.
RecordsCreated(seen, fault) ==
    IF ~ValidateAborts(seen, HealthCheckLimit) /\ fault = "none" THEN 1 ELSE 0

InProgress == {w \in Threads : calls[w].pc = "counted"}
CallsBegun == handled + Cardinality(InProgress)

\* The first step of the handler on thread w of the pool: the servicer
\* without a repository runs to its end, the one with a repository through
\* self._health_check_repository.count({}), which may raise.
HandlerBegins(w) ==
    /\ \E f \in FirstFaults(servicer) :
          LET call == [NoCall EXCEPT !.nr = CallsBegun + 1, !.fault = f]
          IN /\ faulted' = (faulted \/ f # "none")
             /\ IF servicer = "simple"
                THEN /\ calls' = [calls EXCEPT ![w] =
                            [call EXCEPT !.pc = "done",
                                         !.response = SimpleHealthCheck(f)]]
                     /\ handled' = handled + 1
                ELSE IF f = "count"
                THEN /\ calls' = [calls EXCEPT ![w] =
                            [call EXCEPT !.pc = "done", !.response = Escaped(f)]]
                     /\ handled' = handled + 1
                ELSE /\ calls' = [calls EXCEPT ![w] =
                            [call EXCEPT !.pc = "counted", !.seen = records]]
                     /\ UNCHANGED handled
    /\ UNCHANGED <<lvars, servicer, records, validation>>

\* A client that calls sequentially makes its next HealthCheck call on the
\* serving transport, and the handler runs on the first thread of the pool,
\* which is free.
HealthCheckArrives(w) ==
    /\ w = 1
    /\ InProgress = {}
    /\ CallsBegun < MaxHealthCalls
    /\ LifecycleState = "Serving"
    /\ HandlerBegins(w)

\* Clients that do not wait for each other: a call arrives while others are
\* in progress, and the ThreadPoolExecutor(max_workers) hands it to the
\* first thread that is free, if fewer than max_workers handlers run.
HealthCheckArrivesConcurrently(w) ==
    /\ calls[w].pc # "counted"
    /\ \A v \in Threads : v < w => calls[v].pc = "counted"
    /\ Cardinality(InProgress) < config.max_workers
    /\ CallsBegun < MaxHealthCalls
    /\ LifecycleState = "Serving"
    /\ HandlerBegins(w)

\* The handler with a repository goes on from the count to its end; behind
\* the validation the logger or the repository's create may raise.
HealthCheckProceeds(w) ==
    /\ calls[w].pc = "counted"
    /\ \E f \in (IF ValidateAborts(calls[w].seen, HealthCheckLimit)
                 THEN {"none"} ELSE {"none", "debug", "create"}) :
          /\ calls' = [calls EXCEPT
                          ![w].pc = "done",
                          ![w].fault = f,
                          ![w].made = RecordsCreated(calls[w].seen, f),
                          ![w].response = RepositoryHealthCheck(calls[w].seen, f)]
          /\ records' = records + RecordsCreated(calls[w].seen, f)
          /\ faulted' = (faulted \/ f # "none")
    /\ handled' = handled + 1
    /\ UNCHANGED <<lvars, servicer, validation>>

\* ---------------------------------------------------------- specifications
TaskStep ==
    \/ \E i \in Starts : StartResume(i)
    \/ \E i \in Starts : StartWake(i)
    \/ \E j \in Stops : StopBegin(j)
    \/ \E j \in Stops : StopResume(j)

TransportStep ==
    \/ \E t \in Starts : TransportStartCompletes(t)
    \/ \E t \in Starts : Tick(t)
    \/ \E t \in Starts : DrainCompletes(t)

Next ==
    \/ CallStart
    \/ CallStop
    \/ \E i \in Starts : StartResume(i)
    \/ \E i \in Starts : StartWake(i)
    \/ \E j \in Stops : StopResume(j)
    \/ \E t \in Starts : TransportStartCompletes(t)
    \/ \E t \in Starts : CallArrives(t)
    \/ \E t \in Starts : CallCompletes(t)
    \/ \E t \in Starts : Tick(t)
    \/ \E t \in Starts : DrainCompletes(t)

Spec == Init /\ [][Next]_vars

\* The loop runs every task that is ready, the transport completes what it
\* was asked to do and the clock advances; callers, signals and client
\* calls owe nothing.
Fairness ==
    /\ WF_vars(TaskStep)
    /\ WF_vars(TransportStep)

FairSpec == Spec /\ Fairness

NextMain ==
    \/ MainSetup
    \/ MainInterruptedInSetup
    \/ MainAwaitStart
    \/ MainCleanup
    \/ MainDone
    \/ \E sig \in Signals : HandleSignal(sig)
    \/ \E i \in Starts : StartResume(i)
    \/ \E i \in Starts : StartWake(i)
    \/ \E j \in Stops : StopBegin(j)
    \/ \E j \in Stops : StopResume(j)
    \/ \E t \in Starts : TransportStartCompletes(t)
    \/ \E t \in Starts : CallArrives(t)
    \/ \E t \in Starts : CallCompletes(t)
    \/ \E t \in Starts : Tick(t)
    \/ \E t \in Starts : DrainCompletes(t)

SpecMain == InitMain /\ [][NextMain]_vars

\* main() under every setting of the environment.
SpecBoot == InitBoot /\ [][NextMain]_vars

FairSpecMain ==
    /\ SpecMain
    /\ WF_vars(MainSetup \/ MainAwaitStart \/ MainCleanup \/ MainDone)
    /\ WF_vars(TaskStep)
    /\ WF_vars(TransportStep)

\* A constructed GrpcServer with either TemplateService, driven directly
\* while a client makes HealthCheck calls one after the other.
InitHealth ==
    /\ config \in Configs
    /\ servicer \in {"simple", "repository"}
    /\ InitObject
    /\ validation = NoValidation
    /\ env = "ok"
    /\ mainpc = "off"

NextHealth ==
    \/ CallStart
    \/ CallStop
    \/ \E i \in Starts : StartResume(i)
    \/ \E i \in Starts : StartWake(i)
    \/ \E j \in Stops : StopResume(j)
    \/ \E t \in Starts : TransportStartCompletes(t)
    \/ \E t \in Starts : Tick(t)
    \/ \E t \in Starts : DrainCompletes(t)
    \/ \E w \in Threads : HealthCheckArrives(w)
    \/ \E w \in Threads : HealthCheckProceeds(w)

SpecHealth == InitHealth /\ [][NextHealth]_vars

\* The GrpcServer with the TemplateService that keeps records, while
\* clients make HealthCheck calls without waiting for each other.
InitConcurrent ==
    /\ config \in Configs
    /\ servicer = "repository"
    /\ InitObject
    /\ validation = NoValidation
    /\ env = "ok"
    /\ mainpc = "off"

NextConcurrent ==
    \/ CallStart
    \/ CallStop
    \/ \E i \in Starts : StartResume(i)
    \/ \E i \in Starts : StartWake(i)
    \/ \E j \in Stops : StopResume(j)
    \/ \E t \in Starts : TransportStartCompletes(t)
    \/ \E t \in Starts : Tick(t)
    \/ \E t \in Starts : DrainCompletes(t)
    \/ \E w \in Threads : HealthCheckArrivesConcurrently(w)
    \/ \E w \in Threads : HealthCheckProceeds(w)

SpecConcurrent == InitConcurrent /\ [][NextConcurrent]_vars

\* validate_less_than on its own: any arguments, a context on which
\* nothing was called yet.
StatusCodes == {"RESOURCE_EXHAUSTED", "INVALID_ARGUMENT"}
Messages == {"", "You've exceeded the maximum number of health checks."}

InitValidate ==
    /\ config \in Configs
    /\ servicer = "repository"
    /\ InitObject
    /\ env = "ok"
    /\ mainpc = "off"
    /\ validation \in [pc : {"called"}, n : -1..MaxN, less_than : -1..MaxN,
                        code : StatusCodes, message : Messages, aborts : {<<>>}]

NextValidate == ValidateCall

SpecValidate == InitValidate /\ [][NextValidate]_vars

\* ------------------------------------------------------------------ types
TypeOK ==
    /\ config \in Settings
    /\ env \in Envs
    /\ server \in 0..Slots
    /\ shutdown_event \in BOOLEAN
    /\ \A t \in Starts :
          /\ transport[t].status \in {"absent", "ready", "starting", "running",
                                      "failed", "stopping", "stopped"}
          /\ transport[t].inflight \in 0..MaxInflight
          /\ Len(transport[t].stops) <= Slots
    /\ \A i \in Starts :
          startTasks[i].pc \in {"idle", "await_transport_start",
                                "wait_shutdown", "returned", "raised",
                                "interrupted"}
    /\ \A j \in Stops :
          stopTasks[j].pc \in {"idle", "begin", "await_transport_stop",
                               "returned", "cancelled"}
    /\ exit_code \in {-1, 0, 1}
    /\ handlers \subseteq Signals
    /\ servicer \in {"simple", "repository"}
    /\ records \in 0..MaxHealthCalls
    /\ handled \in 0..MaxHealthCalls
    /\ faulted \in BOOLEAN
    /\ validation.pc \in {"none", "called", "returned", "aborted"}
    /\ Len(validation.aborts) <= 1
    /\ \A w \in Threads :
          /\ calls[w].pc \in {"idle", "counted", "done"}
          /\ calls[w].nr \in 0..MaxHealthCalls
          /\ calls[w].fault \in Faults
          /\ calls[w].seen \in 0..MaxHealthCalls
          /\ calls[w].made \in {0, 1}
          /\ calls[w].response.kind \in {"none", "reply", "error"}

\* ================================================================ claims
\* C1: stop() is idempotent: a stop() on a server that is already Stopping
\* or Stopped is a no-op, so the transport's stop is requested at most
\* once per server, whatever the sequence of stop() calls.
C1_StopRequestedAtMostOnce ==
    \A t \in Starts : Len(transport[t].stops) <= 1

\* C2: any number of termination signals, together with main's cleanup
\* stop(), coalesce into one shutdown intent: the drain logic of stop()
\* (the part behind its guard, which requests the transport stop) runs at
\* most once.
C2_DrainLogicRunsOnce ==
    Cardinality({j \in Stops : stopTasks[j].ran}) <= 1

\* C3: start() on a GrpcServer that is not Created raises: it creates and
\* binds no transport and leaves the transports that exist as they are.
C3_StartOnlyFromCreated ==
    [][\A i \in Starts :
          (/\ LifecycleState # "Created"
           /\ startTasks[i].pc = "idle"
           /\ startTasks'[i].pc # "idle")
          => (startTasks'[i].pc = "raised" /\ transport' = transport)]_vars

Rank(st) ==
    CASE st = "Created" -> 0 [] st = "Starting" -> 1 [] st = "Serving" -> 2
      [] st = "Stopping" -> 3 [] st = "Stopped" -> 4

\* C4: the lifecycle only moves forward and nothing leaves Stopped: once
\* a stop() has completed on a stopped transport, no later operation takes
\* the server out of Stopped (to bind, listen or serve again).
C4_NothingLeavesStopped ==
    [][(/\ LifecycleState = "Stopped"
        /\ \E j \in Stops : /\ stopTasks[j].pc = "returned"
                            /\ stopTasks[j].ran
                            /\ transport[stopTasks[j].tr].status = "stopped")
       => /\ LifecycleState' = "Stopped"
          /\ Rank(LifecycleState') >= Rank(LifecycleState)]_vars

\* C5: a start() that started its transport returns only once the
\* shutdown event is set, and does return once it is set.
C5_StartReturnsOnlyOnShutdown ==
    /\ [](\A i \in Starts :
            (startTasks[i].pc = "returned" /\ startTasks[i].tr # 0)
            => shutdown_event)
    /\ \A i \in Starts :
          (startTasks[i].pc = "wait_shutdown" /\ shutdown_event)
          ~> (startTasks[i].pc = "returned")

C5_Witness ==
    \E i \in Starts :
        /\ startTasks[i].pc = "returned"
        /\ startTasks[i].tr # 0
        /\ transport[startTasks[i].tr].status \in {"stopping", "stopped"}

SignalStops == {j \in Stops : stopTasks[j].origin \in Signals}

\* C6: under main(), a signal delivered while Serving takes the lifecycle
\* through Serving -> Stopping -> Stopped in that order, start() returns,
\* main() completes and the process exits with code 0 (no KeyboardInterrupt
\* being raised in start() meanwhile).
C6_SignalShutsDownCleanly ==
    /\ [][/\ LifecycleState = "Serving"
             => LifecycleState' \in {"Serving", "Stopping"}
          /\ LifecycleState = "Stopping"
             => LifecycleState' \in {"Stopping", "Stopped"}
          /\ LifecycleState = "Stopped" => LifecycleState' = "Stopped"]_vars
    /\ (LifecycleState = "Serving" /\ SignalStops # {} /\ env # "interrupted")
       ~> (/\ LifecycleState = "Stopped"
           /\ startTasks[1].pc = "returned"
           /\ mainpc = "done"
           /\ exit_code = 0)

C6_Witness ==
    /\ mainpc = "done"
    /\ exit_code = 0
    /\ LifecycleState = "Stopped"
    /\ transport[1].status = "stopped"
    /\ \E j \in SignalStops : stopTasks[j].ran /\ stopTasks[j].pc = "returned"

\* C7: the drain is bounded: a stop() that requested the transport stop
\* returns with the transport Stopped even if a call in flight never
\* completes; during the drain a deadline of at most grace_period is armed,
\* and calls are abandoned only at that deadline.
C7_DrainBounded ==
    /\ [](\A t \in Starts :
            /\ transport[t].status = "stopping"
               => transport[t].timer \in 0..config.grace_period
            /\ transport[t].status = "stopped" => transport[t].inflight = 0)
    /\ \A j \in Stops :
          (stopTasks[j].pc = "await_transport_stop")
          ~> (/\ stopTasks[j].pc = "returned"
              /\ stopTasks[j].tr # 0
              /\ transport[stopTasks[j].tr].status = "stopped")

C7_Witness ==
    \E j \in Stops :
        /\ stopTasks[j].pc = "returned"
        /\ stopTasks[j].ran
        /\ transport[stopTasks[j].tr].status = "stopped"
        /\ transport[stopTasks[j].tr].abandoned > 0

\* C8: with a grace period of zero and an address that binds, start()
\* followed by stop() while start() is suspended (Starting or Serving)
\* reaches Stopped, start() returns and neither call raises.
C8_StartThenStopZero ==
    /\ [](env = "ok" => \A i \in Starts : startTasks[i].pc # "raised")
    /\ (/\ config.grace_period = 0
        /\ env = "ok"
        /\ startTasks[1].pc \in {"await_transport_start", "wait_shutdown"}
        /\ stopTasks[1].ran
        /\ stopTasks[1].tr = startTasks[1].tr)
       ~> (/\ LifecycleOf(startTasks[1].tr) = "Stopped"
           /\ startTasks[1].pc = "returned"
           /\ stopTasks[1].pc = "returned")

C8_Witness ==
    /\ config.grace_period = 0
    /\ env = "ok"
    /\ startTasks[1].pc = "returned"
    /\ stopTasks[1].pc = "returned"
    /\ stopTasks[1].ran
    /\ stopTasks[1].tr = 1
    /\ transport[1].status = "stopped"
    /\ transport[1].abandoned > 0

StoppedWhileStarting ==
    /\ startTasks[1].pc = "await_transport_start"
    /\ transport[1].status = "stopping"
    /\ \E j \in Stops : stopTasks[j].ran /\ stopTasks[j].tr = 1

\* C9: a stop accepted while start() is suspended in the transport's start
\* takes the lifecycle Starting -> Stopping -> Stopped, start() returns
\* (no KeyboardInterrupt being raised in it), and once a stop() has
\* completed the server is not Serving.
C9_StopWhileStarting ==
    /\ [][LifecycleState = "Stopping"
             => LifecycleState' \in {"Stopping", "Stopped"}]_vars
    /\ [](\A j \in Stops :
            (stopTasks[j].pc = "returned" /\ stopTasks[j].ran)
            => LifecycleState = "Stopped")
    /\ (StoppedWhileStarting /\ env # "interrupted")
       ~> (/\ LifecycleState = "Stopped"
           /\ startTasks[1].pc = "returned"
           /\ mainpc = "done")

C9_Witness ==
    /\ StoppedWhileStarting
    /\ LifecycleState = "Stopping"

\* C10: every stop() that finds a transport, whether main's own or one
\* scheduled by handle_signal for SIGINT or SIGTERM, sets the shutdown
\* event and requests the transport stop with the configured grace_period;
\* the origin of the stop makes no difference.
C10_StopUsesConfiguredGrace ==
    \A j \in Stops :
        (stopTasks[j].pc \in {"await_transport_stop", "returned"}
         /\ env # "no_server")
        => /\ stopTasks[j].ran
           /\ shutdown_event
           /\ stopTasks[j].tr = server
           /\ Len(transport[server].stops) =
                 Cardinality({k \in Stops : stopTasks[k].ran})
           /\ \A n \in 1..Len(transport[server].stops) :
                 transport[server].stops[n] = config.grace_period

C10_Witness ==
    /\ config.grace_period > 0
    /\ \E j, k \in Stops :
          /\ stopTasks[j].origin = "SIGINT" /\ stopTasks[j].ran
          /\ stopTasks[k].origin = "SIGTERM" /\ stopTasks[k].ran
    /\ \E m \in Stops : stopTasks[m].origin = "main" /\ stopTasks[m].ran

\* C11: handle_signal is fire-and-forget: a step that delivers a signal
\* adds exactly one stop() coroutine, not yet started, and changes nothing
\* else: the shutdown event, self._server, the transports, the start()
\* coroutines and main() are as before, so the handler has waited for
\* nothing.
C11_HandleSignalFireAndForget ==
    [][SignalStops' # SignalStops =>
         /\ \E j \in Stops :
               /\ stopTasks[j] = IdleStop
               /\ stopTasks'[j].pc = "begin"
               /\ stopTasks'[j].origin \in Signals
               /\ ~stopTasks'[j].ran
               /\ \A k \in Stops \ {j} : stopTasks'[k] = stopTasks[k]
         /\ shutdown_event' = shutdown_event
         /\ server' = server
         /\ transport' = transport
         /\ startTasks' = startTasks
         /\ mainpc' = mainpc]_vars

\* A signal was handled while the transport serves: its stop() is scheduled
\* and has not run, the event is unset and the transport still running.
C11_Witness ==
    /\ \E j \in Stops : stopTasks[j].origin \in Signals /\ stopTasks[j].pc = "begin"
    /\ ~shutdown_event
    /\ server # 0
    /\ transport[server].status = "running"

\* C12: the shutdown event is a latch: it is unset when the GrpcServer is
\* constructed and no step of start() or stop() takes it from set to unset.
C12_ShutdownLatch ==
    /\ ~shutdown_event
    /\ [][shutdown_event => shutdown_event']_vars

\* The event is set and two stop() calls have passed the guard: the second
\* set it while it was set.
C12_Witness ==
    /\ shutdown_event
    /\ Cardinality({j \in Stops : stopTasks[j].ran}) >= 2
    /\ \E i \in Starts : startTasks[i].pc = "returned"

\* C13: run() ends the process with code 0 or 1 and nothing else: 1 when
\* start() raised an exception other than KeyboardInterrupt or when the
\* setup of main() raised (the settings were refused), 0 when start()
\* returned or was interrupted or the setup was interrupted; 1 is given
\* for no other reason, and a start() that raised never gives 0.
C13_ExitCodes ==
    /\ exit_code \in {-1, 0, 1}
    /\ exit_code # -1 <=> mainpc = "done"
    /\ mainpc = "done" =>
          /\ startTasks[1].pc = "raised" => exit_code = 1
          /\ startTasks[1].pc \in {"returned", "interrupted"} => exit_code = 0
          /\ startTasks[1].pc = "idle" /\ config.max_workers > 0 => exit_code = 0
          /\ exit_code = 1 =>
                \/ startTasks[1].pc = "raised"
                \/ startTasks[1].pc = "idle" /\ config.max_workers <= 0

\* The transport's start() raised after start() had suspended on it: main()
\* has cleaned up and the process ended with code 1.
C13_Witness ==
    /\ mainpc = "done"
    /\ exit_code = 1
    /\ startTasks[1].pc = "raised"
    /\ server # 0
    /\ transport[server].status = "failed"

\* The stop() coroutines main() awaits in its finally clause.
MainStops == {j \in Stops : stopTasks[j].origin = "main"}

\* C14: however start() ends inside main() (it returns, it is interrupted,
\* it raises), main() invokes stop() exactly once as cleanup: never before
\* start() has ended, at once when it has, never a second time, and main()
\* finishes only when that stop() has returned.
C14_CleanupStopOnce ==
    /\ Cardinality(MainStops) <= 1
    /\ MainStops # {} => startTasks[1].pc \in {"returned", "raised", "interrupted"}
    /\ (startTasks[1].pc \in {"returned", "raised", "interrupted"}
          /\ mainpc # "await_start") => Cardinality(MainStops) = 1
    /\ (mainpc = "done" /\ startTasks[1].pc # "idle") =>
          \E j \in MainStops : stopTasks[j].pc = "returned"

\* start() was interrupted while the transport runs, and main() has ended
\* after its one cleanup stop() asked the transport to stop and returned.
C14_Witness ==
    /\ mainpc = "done"
    /\ startTasks[1].pc = "interrupted"
    /\ \E j \in MainStops : stopTasks[j].pc = "returned" /\ stopTasks[j].ran
    /\ transport[server].status = "stopped"

\* C15: when the address cannot be bound, start() raises to its caller at
\* the bind: one transport was created and one bind attempted, the
\* transport is never started, the object never Serving, start() never
\* waits on the shutdown event, and the process of main() ends with a
\* code other than 0.
C15_BindFailure ==
    env = "bind_fails" =>
        /\ \A i \in Starts : startTasks[i].pc \in {"idle", "raised"}
        /\ mainpc \in {"await_start", "finally", "finally_exit"} =>
               startTasks[1].pc = "raised"
        /\ \A t \in Starts :
              /\ transport[t].status \in {"absent", "ready"}
              /\ ~transport[t].bound
              /\ Len(transport[t].binds) <= 1
        /\ NextTransport <= 2
        /\ LifecycleState # "Serving"
        /\ (mainpc = "done" /\ startTasks[1].pc # "idle") => exit_code = 1

\* The bind failed under main(): start() raised, the one transport made
\* one bind attempt and the process ended with code 1.
C15_Witness ==
    /\ env = "bind_fails"
    /\ mainpc = "done"
    /\ exit_code = 1
    /\ startTasks[1].pc = "raised"
    /\ transport[1].binds = <<config.port>>
    /\ transport[1].status = "ready"

\* C16: settings with max_workers <= 0 are refused when the GrpcServer is
\* constructed: main() never calls start(), no transport is created and no
\* bind attempted, and the process ends from the setup.
C16_WorkersValidated ==
    config.max_workers <= 0 =>
        /\ mainpc \in {"init", "done"}
        /\ server = 0
        /\ \A t \in Starts : transport[t] = NoTransport
        /\ \A i \in Starts : startTasks[i] = IdleStart
        /\ \A j \in Stops : stopTasks[j] = IdleStop

\* The settings carry max_workers <= 0 and the process has ended with
\* code 1 without a transport.
C16_Witness ==
    /\ config.max_workers <= 0
    /\ mainpc = "done"
    /\ exit_code = 1
    /\ transport[1] = NoTransport

\* C17: a port outside 1..65535 is refused at construction, so start()
\* never attempts to bind such a port.
C17_PortValidated ==
    \A t \in Starts :
        \A k \in 1..Len(transport[t].binds) : transport[t].binds[k] \in 1..65535

\* C18: on a Serving server with the TemplateService main.py registers
\* (services/template_service.py), every HealthCheck call in which nothing
\* raised has replied SERVING with the message "Service is healthy",
\* whatever its number and whatever happened in the calls before.
C18_HealthyWhenServing ==
    servicer = "simple" =>
        \A w \in Threads :
            (calls[w].pc = "done" /\ calls[w].fault = "none") =>
                /\ calls[w].response.kind = "reply"
                /\ calls[w].response.status = "SERVING"
                /\ calls[w].response.message = <<"Service is healthy">>

\* The last of MaxHealthCalls calls, after one in which the logger raised,
\* met no error and was answered healthy.
C18_Witness ==
    /\ servicer = "simple"
    /\ faulted
    /\ \E w \in Threads :
          /\ calls[w].pc = "done"
          /\ calls[w].nr = MaxHealthCalls
          /\ calls[w].fault = "none"
          /\ calls[w].response.status = "SERVING"

\* C19: an error in the handler never leaves HealthCheck: every call in
\* which a step raised has ended with a reply NOT_SERVING whose message
\* contains "Service is unhealthy".
C19_HandlerErrorContained ==
    \A w \in Threads :
        (calls[w].pc = "done" /\ calls[w].fault # "none") =>
            /\ calls[w].response.kind = "reply"
            /\ calls[w].response.status = "NOT_SERVING"
            /\ Contains(calls[w].response.message, "Service is unhealthy")

\* C20: with the repository-backed TemplateService, a repository that
\* works and a client that calls sequentially, the calls 1 to 3 reply
\* SERVING and create one record each, and every call from the fourth on is
\* aborted with RESOURCE_EXHAUSTED and creates none: the repository holds
\* as many records as calls have ended, up to 3.
C20_WorksThreeTimes ==
    (servicer = "repository" /\ ~faulted) =>
        /\ records = (IF handled <= 3 THEN handled ELSE 3)
        /\ \A w \in Threads :
              calls[w].pc = "done" =>
                  IF calls[w].nr <= 3
                  THEN /\ calls[w].response.kind = "reply"
                       /\ calls[w].response.status = "SERVING"
                       /\ calls[w].made = 1
                  ELSE /\ calls[w].response.kind = "error"
                       /\ calls[w].response.status = "RESOURCE_EXHAUSTED"
                       /\ calls[w].made = 0

\* The fourth call on a working repository has been aborted and three
\* records exist.
C20_Witness ==
    /\ servicer = "repository"
    /\ ~faulted
    /\ records = 3
    /\ \E w \in Threads :
          /\ calls[w].pc = "done"
          /\ calls[w].nr = 4
          /\ calls[w].response = Aborted

\* C21: validate_less_than aborts the call through context.abort exactly
\* once, with the code and the message it was given, if and only if
\* n >= less_than; when n < less_than the context is not used and the
\* function returns.
C21_ValidateLessThan ==
    validation.pc \in {"returned", "aborted"} =>
        IF validation.n >= validation.less_than
        THEN /\ validation.pc = "aborted"
             /\ validation.aborts = <<[code |-> validation.code,
                                       details |-> validation.message]>>
        ELSE /\ validation.pc = "returned"
             /\ validation.aborts = <<>>

\* The validator was called with n equal to less_than and has aborted.
C21_Witness ==
    /\ validation.pc = "aborted"
    /\ validation.n = validation.less_than
    /\ Len(validation.aborts) = 1

\* The position of the first call of operation o in the calls made on
\* transport t, 0 if there is none.
FirstCall(t, o) ==
    IF \E k \in DOMAIN transport[t].ops : transport[t].ops[k].op = o
    THEN CHOOSE k \in DOMAIN transport[t].ops :
            /\ transport[t].ops[k].op = o
            /\ \A m \in 1..(k - 1) : transport[t].ops[m].op # o
    ELSE 0

\* C22: on every transport a start() has created, the servicer is
\* registered and reflection enabled before the address is bound and before
\* the transport is started; a transport that accepts calls has both.
C22_HandlerBeforeBind ==
    \A t \in Starts :
        /\ \A k \in DOMAIN transport[t].ops :
              transport[t].ops[k].op \in {"add_insecure_port", "start"} =>
                  /\ FirstCall(t, "add_servicer") \in 1..(k - 1)
                  /\ FirstCall(t, "enable_reflection") \in 1..(k - 1)
        /\ transport[t].status \in {"starting", "running", "stopping"} =>
              /\ transport[t].servicer
              /\ transport[t].reflection
              /\ FirstCall(t, "add_servicer") # 0
        /\ transport[t].inflight > 0 => FirstCall(t, "add_servicer") # 0

\* A transport has accepted a call: it was given the servicer, reflection,
\* the address and the start, in that order.
C22_Witness ==
    /\ transport[1].status = "running"
    /\ transport[1].inflight > 0
    /\ Len(transport[1].ops) = 4
    /\ transport[1].ops[1].op = "add_servicer"
    /\ transport[1].ops[4].op = "start"

\* C23: a start() that succeeds under main() has created exactly one
\* transport, bound it exactly once, to the address "<host>:<port>" of the
\* configured host and port, and started it exactly once, all of it before
\* it waits for the shutdown event.
C23_OneTransportOneBind ==
    (startTasks[1].pc \in {"wait_shutdown", "returned"} /\ startTasks[1].tr # 0) =>
        /\ NextTransport = 2
        /\ startTasks[1].tr = 1
        /\ transport[1].ops =
              << [op |-> "add_servicer", arg |-> <<>>],
                 [op |-> "enable_reflection", arg |-> <<>>],
                 [op |-> "add_insecure_port",
                  arg |-> <<config.host, ":", config.port>>],
                 [op |-> "start", arg |-> <<>>] >>

\* start() waits for the shutdown event on a transport bound to a host
\* other than the default.
C23_Witness ==
    /\ startTasks[1].pc = "wait_shutdown"
    /\ config.host # DefaultHost
    /\ transport[1].status = "running"
    /\ transport[1].ops[3].arg = <<config.host, ":", config.port>>

\* C24: when the creation of the transport yields no server, every start()
\* returns at once: no transport exists, nothing was registered, bound or
\* started, no start() waits, self._server stays empty, and every stop()
\* returns behind its guard without a request to a transport.
C24_NoServerCreated ==
    env = "no_server" =>
        /\ server = 0
        /\ \A t \in Starts : transport[t] = NoTransport
        /\ \A i \in Starts : startTasks[i] \in {IdleStart, [pc |-> "returned", tr |-> 0]}
        /\ \A j \in Stops :
              /\ stopTasks[j].pc \in {"idle", "returned"}
              /\ ~stopTasks[j].ran
              /\ stopTasks[j].tr = 0

\* No server was created: a start() has returned and a later stop() has
\* returned without doing anything.
C24_Witness ==
    /\ env = "no_server"
    /\ startTasks[1].pc = "returned"
    /\ stopTasks[1].pc = "returned"
    /\ ~stopTasks[1].ran

\* C25: a stop() on a GrpcServer that has no transport raises nothing and
\* still sets the shutdown event, so that the request is recorded.
C25_StopWithoutServerSetsEvent ==
    \A j \in Stops :
        (stopTasks[j].pc = "returned" /\ stopTasks[j].tr = 0) => shutdown_event

\* C26: main() installs two handlers, one for SIGINT and one for SIGTERM,
\* before start() begins; while main() is suspended in start() with the
\* server Starting or Serving, each of the two signals is taken by
\* handle_signal, and each signal taken schedules exactly one stop().
C26_SignalsForwarded ==
    /\ [](handlers \in {{}, {"SIGINT", "SIGTERM"}})
    /\ []((mainpc # "off" /\ startTasks[1].pc # "idle") =>
              handlers = {"SIGINT", "SIGTERM"})
    /\ []((/\ mainpc = "await_start"
           /\ startTasks[1].pc \in {"await_transport_start", "wait_shutdown"}
           /\ LifecycleState \in {"Starting", "Serving"}
           /\ Cardinality(SignalStops) < MaxSignals) =>
              \A sig \in {"SIGINT", "SIGTERM"} : ENABLED HandleSignal(sig))
    /\ [][SignalStops' # SignalStops =>
             Cardinality(SignalStops') = Cardinality(SignalStops) + 1]_vars

\* SIGTERM was delivered while the server was Serving and its stop() has
\* run.
C26_Witness ==
    /\ handlers = {"SIGINT", "SIGTERM"}
    /\ \E j \in Stops : stopTasks[j].origin = "SIGTERM" /\ stopTasks[j].ran
    /\ transport[1].status = "stopped"

\* C27: when start() fails under main() after the transport was created
\* (the bind or the transport's start raised), the cleanup stop() sets the
\* shutdown event and the lifecycle is Stopped when the process exits: no
\* transport is left starting or running.
C27_StartupErrorFiresIntent ==
    (mainpc = "done" /\ startTasks[1].pc = "raised" /\ startTasks[1].tr # 0) =>
        /\ shutdown_event
        /\ LifecycleState = "Stopped"
        /\ \A t \in Starts : transport[t].status \notin {"starting", "running"}
        /\ transport[startTasks[1].tr].stops # <<>>

\* The transport's start raised and the process has exited with the event
\* set.
C27_Witness ==
    /\ mainpc = "done"
    /\ env = "start_fails"
    /\ startTasks[1].pc = "raised"
    /\ shutdown_event
    /\ exit_code = 1

\* C28: with the TemplateService that keeps records, whatever the
\* interleaving of concurrent calls, the repository never holds more than
\* 3 health-check records, and so at most 3 calls are ever answered SERVING
\* (a call is answered SERVING exactly when it has created its record).
C28_AtMostThreeRecords ==
    servicer = "repository" => records <= HealthCheckLimit

\* The transports on which this GrpcServer has called start().
StartedTransports ==
    {t \in Starts : \E k \in DOMAIN transport[t].ops : transport[t].ops[k] = StartCall}

\* C29: once a stop() has completed on the transport of the latest start()
\* and no stop() is pending, every transport this GrpcServer ever started
\* has had its stop requested and none is still starting or running.
C29_NoStartedTransportLeft ==
    (/\ \A j \in Stops : stopTasks[j].pc \in {"idle", "returned"}
     /\ \E j \in Stops : /\ stopTasks[j].pc = "returned"
                          /\ stopTasks[j].ran
                          /\ stopTasks[j].tr = server)
    => \A t \in StartedTransports :
          /\ transport[t].stops # <<>>
          /\ transport[t].status \notin {"starting", "running"}

\* C30: a transport has been asked to stop only if the shutdown event is
\* set, so start() may have returned while the transport still drains; and
\* main() is done after a start() only when a stop() that main() itself
\* awaited has returned, which is never while a transport still drains.
C30_EventBeforeDrain ==
    /\ \A t \in Starts : transport[t].stops # <<>> => shutdown_event
    /\ \A t \in Starts : transport[t].status = "stopping" => shutdown_event
    /\ (mainpc = "done" /\ startTasks[1].pc # "idle") =>
          /\ \E j \in MainStops : stopTasks[j].pc = "returned"
          /\ \A t \in Starts : transport[t].status # "stopping"

\* In main(), start() has returned while the transport it started still
\* drains, and main() is not done.
C30_Witness ==
    /\ mainpc \notin {"off", "done"}
    /\ startTasks[1].pc = "returned"
    /\ startTasks[1].tr # 0
    /\ transport[startTasks[1].tr].status = "stopping"
    /\ shutdown_event

====
